---- MODULE Spec2Model ----
(***************************************************************************)
(* A model of the serde-net wire codec: the Serializer of src/src/ser.rs,  *)
(* the Deserializer of src/src/de.rs and the error mapping of              *)
(* src/src/error.rs.                                                       *)
(*                                                                         *)
(* Bytes are integers 0..255, an i8, i16, u16 or i32 is an integer, a u32  *)
(* is the pair of its 16-bit halves <<high, low>>, a 64-bit integer is   *)
(* its four 16-bit limbs, most significant first (the first limb of an i64 *)
(* is signed), a string is the sequence of its Unicode                     *)
(* scalar values, Option is None == <<>> / Some(x) == <<x>>, a map value   *)
(* is the sequence of its <<key, value>> entries in iteration order.       *)
(* A panic (todo!(), unimplemented!()) is the result "Panic".              *)
(***************************************************************************)
EXTENDS Integers, Sequences, FiniteSets, TLC

VARIABLES
    output,     \* Serializer.output                         (ser.rs:8-10)
    serRes,     \* result of the last Serializer call
    serCall,    \* the last Serializer call: [op, arg, before]
    input,      \* the buffer under Deserializer.input       (de.rs:9-11)
    pos,        \* the position of the Cursor over it
    access,     \* the LengthDefined handed to the visitor   (de.rs:285-289)
    deRes,      \* result of the last Deserializer call
    deVal,      \* the value it handed to the visitor
    deCall,     \* the last Deserializer call: [op, arg, from, idx]
    job,        \* the value/shape or buffer/shape given to an entry point
    phase       \* progress of the entry-point call

vars == <<output, serRes, serCall, input, pos, access, deRes, deVal, deCall, job, phase>>

serVars == <<output, serRes, serCall>>
deVars == <<input, pos, access, deRes, deVal, deCall>>
topVars == <<job, phase>>

(***************************************************************************)
(* Bounds of the model.                                                    *)
(***************************************************************************)
MaxOut == 4         \* a Serializer call is made while Len(output) < MaxOut
MaxInput == 4       \* longest buffer handed to the Deserializer
MaxLen == 2         \* longest string / sequence / map among the values

(***************************************************************************)
(* Widths and limits fixed by the code.                                    *)
(***************************************************************************)
U16Mod == 65536     \* `as u16` keeps the value modulo 2^16
U16Max == 65535     \* the largest count a 2-byte prefix can hold
CharMax == 1114111  \* char::MAX, U+10FFFF
U8Mod == 256        \* `as u8` keeps the value modulo 2^8
I32Max == 2147483647
I32Min == (-I32Max) - 1

None == <<>>
Some(x) == <<x>>

(***************************************************************************)
(* Big-endian (NetworkEndian) byte layouts, as byteorder writes them.      *)
(***************************************************************************)
be_u16_Swapped(v) == <<v % 256, v \div 256>>

be_u16(v) == <<v \div 256, v % 256>>

\* A 32-bit value is the pair <<high 16 bits, low 16 bits>>.
be_u32(v) == be_u16(v[1]) \o be_u16(v[2])

\* A 64-bit value is its four 16-bit limbs.
be_u64(v) == be_u16(v[1]) \o be_u16(v[2]) \o be_u16(v[3]) \o be_u16(v[4])

\* Two's complement: the unsigned integer with the bits of a signed one.
be_i8(v) == <<v % U8Mod>>

be_i16(v) == be_u16(v % U16Mod)

be_i32(v) == be_u16((v \div U16Mod) % U16Mod) \o be_u16(v % U16Mod)

be_i64(v) == be_u16(v[1] % U16Mod) \o be_u16(v[2]) \o be_u16(v[3]) \o be_u16(v[4])

from_be(bs) == IF Len(bs) = 1 THEN bs[1]
               ELSE IF Len(bs) = 2 THEN (bs[1] * 256) + bs[2]
               ELSE IF Len(bs) = 4
               THEN <<(bs[1] * 256) + bs[2], (bs[3] * 256) + bs[4]>>
               ELSE <<(bs[1] * 256) + bs[2], (bs[3] * 256) + bs[4],
                      (bs[5] * 256) + bs[6], (bs[7] * 256) + bs[8]>>

\* the signed integer with the bits of an unsigned 8-bit / 16-bit one
sign8(u) == IF u >= 128 THEN u - U8Mod ELSE u

sign16(u) == IF u >= 32768 THEN u - U16Mod ELSE u

(***************************************************************************)
(* UTF-8, as str::as_bytes / char::to_string produce it.                   *)
(***************************************************************************)
utf8_char(c) ==
    IF c < 128 THEN <<c>>
    ELSE IF c < 2048 THEN <<192 + (c \div 64), 128 + (c % 64)>>
    ELSE IF c < 65536
         THEN <<224 + (c \div 4096), 128 + ((c \div 64) % 64), 128 + (c % 64)>>
    ELSE <<240 + (c \div 262144), 128 + ((c \div 4096) % 64),
           128 + ((c \div 64) % 64), 128 + (c % 64)>>

RECURSIVE as_bytes(_)
as_bytes(s) == IF s = <<>> THEN <<>> ELSE utf8_char(Head(s)) \o as_bytes(Tail(s))

to_string(c) == <<c>>

(***************************************************************************)
(* error.rs: Error::io.  An io::Error is modelled by its kind.             *)
(***************************************************************************)
io_AlwaysIo(kind) == "Io"

io(kind) == IF kind = "UnexpectedEof" THEN "EofWhileDeserializing" ELSE "Io"

map_err(kind) == IF kind = "Ok" THEN "Ok" ELSE io(kind)

(***************************************************************************)
(* Writes to the Vec<u8> sink: they append and never fail.                 *)
(***************************************************************************)
write_all(out, bs) == [kind |-> "Ok", output |-> out \o bs]

write_u8(out, b) == write_all(out, <<b>>)

write_u16(out, v) == write_all(out, be_u16(v))

write_u32(out, v) == write_all(out, be_u32(v))

write_u64(out, v) == write_all(out, be_u64(v))

write_i8(out, v) == write_all(out, be_i8(v))

write_i16(out, v) == write_all(out, be_i16(v))

write_i32(out, v) == write_all(out, be_i32(v))

write_i64(out, v) == write_all(out, be_i64(v))

SerOk(w) == [res |-> map_err(w.kind), output |-> w.output]

(***************************************************************************)
(* ser.rs: impl ser::Serializer for &mut Serializer.                       *)
(* Each operator takes the output so far and returns [res, output].        *)
(***************************************************************************)
serialize_bool(out, v) == SerOk(write_u8(out, IF v THEN 1 ELSE 0))

serialize_i8(out, v) == SerOk(write_i8(out, v))

serialize_i16(out, v) == SerOk(write_i16(out, v))

serialize_i32(out, v) == SerOk(write_i32(out, v))

serialize_i64(out, v) == SerOk(write_i64(out, v))

serialize_u8(out, v) == SerOk(write_u8(out, v))

serialize_u16(out, v) == SerOk(write_u16(out, v))

serialize_u32(out, v) == SerOk(write_u32(out, v))

serialize_u64(out, v) == SerOk(write_u64(out, v))

serialize_bytes(out, v) ==
    LET w == SerOk(write_u16(out, Len(v) % U16Mod))
    IN  IF w.res # "Ok" THEN w ELSE SerOk(write_all(w.output, v))

serialize_str(out, v) == serialize_bytes(out, as_bytes(v))

serialize_char(out, v) == serialize_str(out, to_string(v))

serialize_none(out) == serialize_bool(out, FALSE)

serialize_unit(out) == [res |-> "Panic", output |-> out]

serialize_unit_struct(out, name) == [res |-> "Panic", output |-> out]

serialize_unit_variant(out, name, variant_index, variant) ==
    SerOk(write_u8(out, variant_index % U8Mod))

serialize_seq_NoneAsEmpty(out, len) ==
    SerOk(write_u16(out, IF len = None THEN 0 ELSE len[1] % U16Mod))

serialize_seq(out, len) ==
    IF len # None
    THEN SerOk(write_u16(out, len[1] % U16Mod))
    ELSE [res |-> "LengthNotKnown", output |-> out]

serialize_tuple(out, len) == [res |-> "Ok", output |-> out]

serialize_tuple_struct(out, name, len) == [res |-> "Ok", output |-> out]

serialize_tuple_variant_NoTag(out, name, variant_index, variant, len) ==
    [res |-> "Ok", output |-> out]

serialize_tuple_variant(out, name, variant_index, variant, len) ==
    SerOk(write_u8(out, variant_index % U8Mod))

serialize_map(out, len) ==
    IF len # None
    THEN SerOk(write_u16(out, len[1] % U16Mod))
    ELSE [res |-> "LengthNotKnown", output |-> out]

serialize_struct(out, name, len) == [res |-> "Ok", output |-> out]

serialize_struct_variant(out, name, variant_index, variant, len) ==
    SerOk(write_u8(out, variant_index % U8Mod))

end(out) == [res |-> "Ok", output |-> out]

(***************************************************************************)
(* Shapes: the static type the caller (serde's Serialize / Deserialize     *)
(* impls) drives the codec with.                                           *)
(***************************************************************************)
T(k) == [k |-> k]
TSeq(e) == [k |-> "seq", e |-> e]
TOpt(e) == [k |-> "option", e |-> e]
TMap(key, val) == [k |-> "map", key |-> key, val |-> val]
TTuple(es) == [k |-> "tuple", es |-> es]
TUnitStruct(name) == [k |-> "unit_struct", name |-> name]
TTupleStruct(name, es) == [k |-> "tuple_struct", name |-> name, es |-> es]
TStruct(name, fields, es) == [k |-> "struct", name |-> name, fields |-> fields, es |-> es]
\* an enum is its variants in declaration order; a variant is its name, its
\* kind ("unit", "newtype", "tuple", "struct") and its fields
Variant(name, kind, fields, es) == [name |-> name, kind |-> kind, fields |-> fields, es |-> es]
TEnum(name, variants) == [k |-> "enum", name |-> name, variants |-> variants]
\* a value of an enum: the 0-based index of its variant and the variant's fields
EnumValue(variant_index, vals) == [variant_index |-> variant_index, vals |-> vals]

(***************************************************************************)
(* value.serialize(&mut serializer): the call sequence serde's Serialize   *)
(* impls make on the Serializer for a value of each shape.                 *)
(***************************************************************************)
RECURSIVE Serialize(_, _, _)

serialize_some(out, sh, v) ==
    LET w == serialize_bool(out, TRUE)
    IN  IF w.res # "Ok" THEN w ELSE Serialize(sh, v, w.output)

serialize_newtype_variant(out, name, variant_index, variant, sh, v) ==
    LET w == SerOk(write_u8(out, variant_index % U8Mod))
    IN  IF w.res # "Ok" THEN w ELSE Serialize(sh, v, w.output)

serialize_element(out, sh, v) == Serialize(sh, v, out)

serialize_key_Skip(out, sh, v) == [res |-> "Ok", output |-> out]

serialize_key(out, sh, v) == Serialize(sh, v, out)

serialize_value(out, sh, v) == Serialize(sh, v, out)

SerializeTupleStruct_serialize_field(out, sh, v) == Serialize(sh, v, out)

SerializeStruct_serialize_field(out, key, sh, v) == Serialize(sh, v, out)

SerializeTupleVariant_serialize_field(out, sh, v) == Serialize(sh, v, out)

SerializeStructVariant_serialize_field(out, key, sh, v) == Serialize(sh, v, out)

RECURSIVE ser_items(_, _, _, _)
ser_items(out, shs, vs, i) ==
    IF i > Len(vs) THEN end(out)
    ELSE LET w == serialize_element(out, shs[i], vs[i])
         IN  IF w.res # "Ok" THEN w ELSE ser_items(w.output, shs, vs, i + 1)

RECURSIVE ser_fields(_, _, _, _, _)
ser_fields(out, keys, shs, vs, i) ==
    IF i > Len(vs) THEN end(out)
    ELSE LET w == IF keys = <<>>
                  THEN SerializeTupleStruct_serialize_field(out, shs[i], vs[i])
                  ELSE SerializeStruct_serialize_field(out, keys[i], shs[i], vs[i])
         IN  IF w.res # "Ok" THEN w ELSE ser_fields(w.output, keys, shs, vs, i + 1)

RECURSIVE ser_variant_fields(_, _, _, _, _)
ser_variant_fields(out, keys, shs, vs, i) ==
    IF i > Len(vs) THEN end(out)
    ELSE LET w == IF keys = <<>>
                  THEN SerializeTupleVariant_serialize_field(out, shs[i], vs[i])
                  ELSE SerializeStructVariant_serialize_field(out, keys[i], shs[i], vs[i])
         IN  IF w.res # "Ok" THEN w ELSE ser_variant_fields(w.output, keys, shs, vs, i + 1)

RECURSIVE ser_entries(_, _, _, _, _)
ser_entries(out, ksh, vsh, es, i) ==
    IF i > Len(es) THEN end(out)
    ELSE LET wk == serialize_key(out, ksh, es[i][1])
         IN  IF wk.res # "Ok" THEN wk
             ELSE LET wv == serialize_value(wk.output, vsh, es[i][2])
                  IN  IF wv.res # "Ok" THEN wv
                      ELSE ser_entries(wv.output, ksh, vsh, es, i + 1)

Serialize(sh, v, out) ==
    CASE sh.k = "bool" -> serialize_bool(out, v)
      [] sh.k = "i8" -> serialize_i8(out, v)
      [] sh.k = "i16" -> serialize_i16(out, v)
      [] sh.k = "i32" -> serialize_i32(out, v)
      [] sh.k = "i64" -> serialize_i64(out, v)
      [] sh.k = "u64" -> serialize_u64(out, v)
      [] sh.k = "u8" -> serialize_u8(out, v)
      [] sh.k = "u16" -> serialize_u16(out, v)
      [] sh.k = "u32" -> serialize_u32(out, v)
      [] sh.k = "char" -> serialize_char(out, v)
      [] sh.k = "str" -> serialize_str(out, v)
      [] sh.k \in {"bytes", "byte_buf"} -> serialize_bytes(out, v)
      [] sh.k = "unit" -> serialize_unit(out)
      [] sh.k = "unit_struct" -> serialize_unit_struct(out, sh.name)
      [] sh.k = "option" ->
            IF v = None THEN serialize_none(out) ELSE serialize_some(out, sh.e, v[1])
      [] sh.k = "seq" ->
            LET w == serialize_seq(out, Some(Len(v)))
            IN  IF w.res # "Ok" THEN w
                ELSE ser_items(w.output, [i \in 1..Len(v) |-> sh.e], v, 1)
      [] sh.k = "tuple" ->
            LET w == serialize_tuple(out, Len(sh.es))
            IN  IF w.res # "Ok" THEN w ELSE ser_items(w.output, sh.es, v, 1)
      [] sh.k = "tuple_struct" ->
            LET w == serialize_tuple_struct(out, sh.name, Len(sh.es))
            IN  IF w.res # "Ok" THEN w
                ELSE ser_fields(w.output, <<>>, sh.es, v, 1)
      [] sh.k = "struct" ->
            LET w == serialize_struct(out, sh.name, Len(sh.fields))
            IN  IF w.res # "Ok" THEN w
                ELSE ser_fields(w.output, sh.fields, sh.es, v, 1)
      [] sh.k = "enum" ->
            LET var == sh.variants[v.variant_index + 1]
            IN  (CASE var.kind = "unit" ->
                        serialize_unit_variant(out, sh.name, v.variant_index, var.name)
                  [] var.kind = "newtype" ->
                        serialize_newtype_variant(out, sh.name, v.variant_index, var.name,
                                                  var.es[1], v.vals[1])
                  [] var.kind = "tuple" ->
                        LET w == serialize_tuple_variant(out, sh.name, v.variant_index,
                                                         var.name, Len(var.es))
                        IN  IF w.res # "Ok" THEN w
                            ELSE ser_variant_fields(w.output, <<>>, var.es, v.vals, 1)
                  [] var.kind = "struct" ->
                        LET w == serialize_struct_variant(out, sh.name, v.variant_index,
                                                          var.name, Len(var.fields))
                        IN  IF w.res # "Ok" THEN w
                            ELSE ser_variant_fields(w.output, var.fields, var.es, v.vals, 1))
      [] sh.k = "map" ->
            LET w == serialize_map(out, Some(Len(v)))
            IN  IF w.res # "Ok" THEN w
                ELSE ser_entries(w.output, sh.key, sh.val, v, 1)

to_bytes(sh, v) == Serialize(sh, v, <<>>)

(***************************************************************************)
(* The arguments the model hands to the Serializer.                        *)
(***************************************************************************)
SeqsUpTo(S, n) == UNION {[1..m -> S] : m \in 0..n}

ByteIn == {0, 1, 97, 255}
U16In == {0, 5456, U16Max}
U32In == {<<0, 0>>, <<0, 7359>>, <<U16Max, U16Max>>}
U64In == {<<0, 0, 0, 0>>, <<0, 0, 148, 65205>>, <<U16Max, U16Max, U16Max, U16Max>>}
I8In == {-128, -3, 0, 3, 127}
I16In == {-32768, -3456, 0, 3456, 32767}
I32In == {I32Min, -7359, 0, 7359, I32Max}
I64In == {<<-32768, 0, 0, 0>>, <<-1, U16Max, 65534, 36539>>, <<0, 0, 0, 0>>,
          <<0, 0, 1, 28997>>, <<32767, U16Max, U16Max, U16Max>>}
CharIn == {97, 233, 12354, 128175, CharMax}
StrIn == SeqsUpTo({97, 233}, MaxLen)
BigBytes == [i \in 1..(U16Max + 1) |-> 0]
BytesIn == SeqsUpTo({0, 97}, MaxLen) \cup {BigBytes}
LenIn == {None} \cup {Some(n) : n \in {0, 1, 2, U16Max, U16Max + 1, U16Max + 2}}
VariantIn == {0, 1, 2, 3, U8Mod - 1, U8Mod}
ElemIn == {<<T("u8"), b>> : b \in ByteIn} \cup {<<T("str"), s>> : s \in StrIn}
              \cup {<<TOpt(T("u8")), o>> : o \in {None, Some(1)}}

(***************************************************************************)
(* SpecSer: a caller driving one Serializer, one method per step.  A       *)
(* failed call ends the run (the `?` of every caller).                     *)
(***************************************************************************)
IdleSer ==
    /\ output = <<>> /\ serRes = "None"
    /\ serCall = [op |-> "new", arg |-> None, before |-> <<>>]

IdleDe ==
    /\ pos = 0
    /\ access = [live |-> FALSE, via |-> "none", length |-> 0, index |-> 0]
    /\ deRes = "None" /\ deVal = None
    /\ deCall = [op |-> "new", arg |-> None, from |-> 0, idx |-> 0]

InitSer ==
    /\ IdleSer /\ IdleDe /\ input = <<>>
    /\ job = [mode |-> "none"] /\ phase = "idle"

SerReady == serRes \in {"None", "Ok"} /\ Len(output) < MaxOut

SerStep(op, arg, r) ==
    /\ output' = r.output
    /\ serRes' = r.res
    /\ serCall' = [op |-> op, arg |-> arg, before |-> output]
    /\ UNCHANGED <<deVars, topVars>>

SerializeBool ==
    /\ SerReady
    /\ \E v \in BOOLEAN : SerStep("serialize_bool", v, serialize_bool(output, v))

SerializeI8 ==
    /\ SerReady
    /\ \E v \in I8In : SerStep("serialize_i8", v, serialize_i8(output, v))

SerializeI16 ==
    /\ SerReady
    /\ \E v \in I16In : SerStep("serialize_i16", v, serialize_i16(output, v))

SerializeI32 ==
    /\ SerReady
    /\ \E v \in I32In : SerStep("serialize_i32", v, serialize_i32(output, v))

SerializeI64 ==
    /\ SerReady
    /\ \E v \in I64In : SerStep("serialize_i64", v, serialize_i64(output, v))

SerializeU64 ==
    /\ SerReady
    /\ \E v \in U64In : SerStep("serialize_u64", v, serialize_u64(output, v))

SerializeU8 ==
    /\ SerReady
    /\ \E v \in ByteIn : SerStep("serialize_u8", v, serialize_u8(output, v))

SerializeU16 ==
    /\ SerReady
    /\ \E v \in U16In : SerStep("serialize_u16", v, serialize_u16(output, v))

SerializeU32 ==
    /\ SerReady
    /\ \E v \in U32In : SerStep("serialize_u32", v, serialize_u32(output, v))

SerializeChar ==
    /\ SerReady
    /\ \E v \in CharIn : SerStep("serialize_char", v, serialize_char(output, v))

SerializeStr ==
    /\ SerReady
    /\ \E v \in StrIn : SerStep("serialize_str", v, serialize_str(output, v))

SerializeBytes ==
    /\ SerReady
    /\ \E v \in BytesIn : SerStep("serialize_bytes", v, serialize_bytes(output, v))

SerializeNone ==
    /\ SerReady
    /\ SerStep("serialize_none", None, serialize_none(output))

SerializeSome ==
    /\ SerReady
    /\ \E e \in ElemIn : SerStep("serialize_some", e, serialize_some(output, e[1], e[2]))

SerializeUnit ==
    /\ SerReady
    /\ SerStep("serialize_unit", None, serialize_unit(output))

SerializeUnitStruct ==
    /\ SerReady
    /\ SerStep("serialize_unit_struct", "Unit", serialize_unit_struct(output, "Unit"))

SerializeSeq ==
    /\ SerReady
    /\ \E len \in LenIn : SerStep("serialize_seq", len, serialize_seq(output, len))

SerializeTuple ==
    /\ SerReady
    /\ \E len \in 0..MaxLen : SerStep("serialize_tuple", len, serialize_tuple(output, len))

SerializeTupleStruct ==
    /\ SerReady
    /\ \E len \in 0..MaxLen :
          SerStep("serialize_tuple_struct", len, serialize_tuple_struct(output, "Tuple", len))

SerializeStruct ==
    /\ SerReady
    /\ \E len \in 0..MaxLen :
          SerStep("serialize_struct", len, serialize_struct(output, "Test", len))

SerializeUnitVariant ==
    /\ SerReady
    /\ \E i \in VariantIn :
          SerStep("serialize_unit_variant", i, serialize_unit_variant(output, "E", i, "Unit"))

SerializeNewtypeVariant ==
    /\ SerReady
    /\ \E i \in VariantIn : \E e \in ElemIn :
          SerStep("serialize_newtype_variant", <<i, e>>,
                  serialize_newtype_variant(output, "E", i, "Newtype", e[1], e[2]))

SerializeTupleVariant ==
    /\ SerReady
    /\ \E i \in VariantIn : \E len \in 0..MaxLen :
          SerStep("serialize_tuple_variant", <<i, len>>,
                  serialize_tuple_variant(output, "E", i, "Tuple", len))

SerializeStructVariant ==
    /\ SerReady
    /\ \E i \in VariantIn : \E len \in 0..MaxLen :
          SerStep("serialize_struct_variant", <<i, len>>,
                  serialize_struct_variant(output, "E", i, "Struct", len))

SerializeMap ==
    /\ SerReady
    /\ \E len \in LenIn : SerStep("serialize_map", len, serialize_map(output, len))

SerializeElement ==
    /\ SerReady
    /\ serCall.op \in {"serialize_seq", "serialize_tuple", "serialize_element"}
    /\ \E e \in ElemIn :
          SerStep("serialize_element", e, serialize_element(output, e[1], e[2]))

SerializeKey ==
    /\ SerReady
    /\ serCall.op \in {"serialize_map", "serialize_value"}
    /\ \E e \in ElemIn : SerStep("serialize_key", e, serialize_key(output, e[1], e[2]))

SerializeValue ==
    /\ SerReady
    /\ serCall.op = "serialize_key"
    /\ \E e \in ElemIn : SerStep("serialize_value", e, serialize_value(output, e[1], e[2]))

SerializeField ==
    /\ SerReady
    /\ serCall.op \in {"serialize_tuple_struct", "serialize_struct", "serialize_field"}
    /\ \E e \in ElemIn :
          IF serCall.op = "serialize_tuple_struct"
             \/ (serCall.op = "serialize_field" /\ serCall.arg[1] = "")
          THEN SerStep("serialize_field", <<"", e>>,
                       SerializeTupleStruct_serialize_field(output, e[1], e[2]))
          ELSE \E key \in {"int", "seq"} :
                  SerStep("serialize_field", <<key, e>>,
                          SerializeStruct_serialize_field(output, key, e[1], e[2]))

SerializeVariantField ==
    /\ SerReady
    /\ serCall.op \in {"serialize_tuple_variant", "serialize_struct_variant",
                       "serialize_variant_field"}
    /\ \E e \in ElemIn :
          IF serCall.op = "serialize_tuple_variant"
             \/ (serCall.op = "serialize_variant_field" /\ serCall.arg[1] = "")
          THEN SerStep("serialize_variant_field", <<"", e>>,
                       SerializeTupleVariant_serialize_field(output, e[1], e[2]))
          ELSE SerStep("serialize_variant_field", <<"a", e>>,
                       SerializeStructVariant_serialize_field(output, "a", e[1], e[2]))

SerializeEnd ==
    /\ serRes = "Ok"
    /\ serCall.op \in {"serialize_seq", "serialize_tuple", "serialize_element",
                       "serialize_map", "serialize_value",
                       "serialize_tuple_struct", "serialize_struct", "serialize_field",
                       "serialize_tuple_variant", "serialize_struct_variant",
                       "serialize_variant_field"}
    /\ SerStep("end", None, end(output))

NextSer ==
    \/ SerializeSeq \/ SerializeMap \/ SerializeTuple
    \/ SerializeTupleStruct \/ SerializeStruct \/ SerializeField
    \/ SerializeUnitVariant \/ SerializeNewtypeVariant
    \/ SerializeTupleVariant \/ SerializeStructVariant \/ SerializeVariantField
    \/ SerializeBool \/ SerializeU8 \/ SerializeU16 \/ SerializeU32
    \/ SerializeI8 \/ SerializeI16 \/ SerializeI32 \/ SerializeI64 \/ SerializeU64
    \/ SerializeChar \/ SerializeStr \/ SerializeBytes
    \/ SerializeNone \/ SerializeSome \/ SerializeUnit \/ SerializeUnitStruct
    \/ SerializeElement \/ SerializeKey \/ SerializeValue \/ SerializeEnd

SpecSer == InitSer /\ [][NextSer]_vars

(***************************************************************************)
(* Reads from the Cursor over the input buffer.  read_exact fills a buffer *)
(* of n bytes or fails with kind UnexpectedEof (the cursor is then left at *)
(* the end of the buffer).                                                 *)
(***************************************************************************)
read_exact(inp, p, n) ==
    IF Len(inp) - p >= n
    THEN [kind |-> "Ok", buf |-> SubSeq(inp, p + 1, p + n), pos |-> p + n]
    ELSE [kind |-> "UnexpectedEof", buf |-> <<>>, pos |-> Len(inp)]

read_int(inp, p, n) ==
    LET r == read_exact(inp, p, n)
    IN  [kind |-> r.kind, val |-> IF r.kind = "Ok" THEN from_be(r.buf) ELSE 0, pos |-> r.pos]

read_u8(inp, p) == read_int(inp, p, 1)

read_u16(inp, p) == read_int(inp, p, 2)

read_u32(inp, p) == read_int(inp, p, 4)

read_u64(inp, p) == read_int(inp, p, 8)

read_i8(inp, p) ==
    LET r == read_int(inp, p, 1)
    IN  IF r.kind # "Ok" THEN r ELSE [r EXCEPT !.val = sign8(@)]

read_i16(inp, p) ==
    LET r == read_int(inp, p, 2)
    IN  IF r.kind # "Ok" THEN r ELSE [r EXCEPT !.val = sign16(@)]

read_i32(inp, p) ==
    LET r == read_int(inp, p, 4)
    IN  IF r.kind # "Ok" THEN r ELSE [r EXCEPT !.val = (sign16(@[1]) * U16Mod) + @[2]]

read_i64(inp, p) ==
    LET r == read_int(inp, p, 8)
    IN  IF r.kind # "Ok" THEN r ELSE [r EXCEPT !.val = <<sign16(@[1]), @[2], @[3], @[4]>>]

(***************************************************************************)
(* String::from_utf8: [ok, s], s the scalar values of a well-formed input. *)
(***************************************************************************)
Cont(b) == b >= 128 /\ b <= 191

Second3(b, c) == IF b = 224 THEN c >= 160 /\ c <= 191
                 ELSE IF b = 237 THEN c >= 128 /\ c <= 159
                 ELSE Cont(c)

Second4(b, c) == IF b = 240 THEN c >= 144 /\ c <= 191
                 ELSE IF b = 244 THEN c >= 128 /\ c <= 143
                 ELSE Cont(c)

RECURSIVE utf8_decode(_, _, _)
utf8_decode(bs, i, acc) ==
    IF i > Len(bs) THEN [ok |-> TRUE, s |-> acc]
    ELSE
      LET b == bs[i]
          n == Len(bs) - i
          bad == [ok |-> FALSE, s |-> <<>>]
      IN  IF b < 128 THEN utf8_decode(bs, i + 1, Append(acc, b))
          ELSE IF b >= 194 /\ b <= 223
          THEN IF n >= 1 /\ Cont(bs[i + 1])
               THEN utf8_decode(bs, i + 2, Append(acc, ((b - 192) * 64) + (bs[i + 1] - 128)))
               ELSE bad
          ELSE IF b >= 224 /\ b <= 239
          THEN IF n >= 2 /\ Second3(b, bs[i + 1]) /\ Cont(bs[i + 2])
               THEN utf8_decode(bs, i + 3,
                        Append(acc, ((b - 224) * 4096) + ((bs[i + 1] - 128) * 64)
                                    + (bs[i + 2] - 128)))
               ELSE bad
          ELSE IF b >= 240 /\ b <= 244
          THEN IF n >= 3 /\ Second4(b, bs[i + 1]) /\ Cont(bs[i + 2]) /\ Cont(bs[i + 3])
               THEN utf8_decode(bs, i + 4,
                        Append(acc, ((b - 240) * 262144) + ((bs[i + 1] - 128) * 4096)
                                    + ((bs[i + 2] - 128) * 64) + (bs[i + 3] - 128)))
               ELSE bad
          ELSE bad

from_utf8_Unchecked(bs) == [ok |-> TRUE, s |-> bs]

from_utf8(bs) == utf8_decode(bs, 1, <<>>)

(***************************************************************************)
(* Vec construction: vec![0; n] has n elements, Vec::with_capacity(n) has  *)
(* none.                                                                   *)
(***************************************************************************)
vec_zeroed(n) == [i \in 1..n |-> 0]

with_capacity(n) == <<>>

(***************************************************************************)
(* de.rs: impl de::Deserializer for &mut Deserializer.                     *)
(* Each operator takes the buffer and the cursor position and returns      *)
(* [res, val, pos]: the result, the value the visitor built, the cursor.   *)
(***************************************************************************)
DeErr(res, p) == [res |-> res, val |-> None, pos |-> p]

DeOk(v, p) == [res |-> "Ok", val |-> v, pos |-> p]

DeInt(r) == IF r.kind # "Ok" THEN DeErr(map_err(r.kind), r.pos) ELSE DeOk(r.val, r.pos)

deserialize_bool(inp, p) ==
    LET r == read_u8(inp, p)
    IN  IF r.kind # "Ok" THEN DeErr(map_err(r.kind), r.pos) ELSE DeOk(r.val # 0, r.pos)

deserialize_i8(inp, p) == DeInt(read_i8(inp, p))

deserialize_i16(inp, p) == DeInt(read_i16(inp, p))

deserialize_i32(inp, p) == DeInt(read_i32(inp, p))

deserialize_i64(inp, p) == DeInt(read_i64(inp, p))

deserialize_u8(inp, p) == DeInt(read_u8(inp, p))

deserialize_u16(inp, p) == DeInt(read_u16(inp, p))

deserialize_u32(inp, p) == DeInt(read_u32(inp, p))

deserialize_u64(inp, p) == DeInt(read_u64(inp, p))

deserialize_char(inp, p) == DeErr("Panic", p)

deserialize_str(inp, p) ==
    LET l == read_u16(inp, p)
    IN  IF l.kind # "Ok" THEN DeErr(map_err(l.kind), l.pos)
        ELSE LET bytes == vec_zeroed(l.val)
                 r == read_exact(inp, l.pos, Len(bytes))
             IN  IF r.kind # "Ok" THEN DeErr(map_err(r.kind), r.pos)
                 ELSE LET s == from_utf8(r.buf)
                      IN  IF ~s.ok THEN DeErr("InvalidString", r.pos)
                          ELSE DeOk(s.s, r.pos)

deserialize_string(inp, p) == deserialize_str(inp, p)

deserialize_bytes(inp, p) ==
    LET l == read_u16(inp, p)
    IN  IF l.kind # "Ok" THEN DeErr(map_err(l.kind), l.pos)
        ELSE LET bytes == with_capacity(l.val)
                 r == read_exact(inp, l.pos, Len(bytes))
             IN  IF r.kind # "Ok" THEN DeErr(map_err(r.kind), r.pos)
                 ELSE DeOk(r.buf, r.pos)

deserialize_byte_buf(inp, p) == DeErr("Panic", p)

deserialize_unit(inp, p) == DeErr("Panic", p)

deserialize_unit_struct(inp, p, name) == DeErr("Panic", p)

(***************************************************************************)
(* de.rs: LengthDefined, the SeqAccess / MapAccess handed to the visitor.  *)
(* `via` records which of the two traits the visitor was given it as.      *)
(* The access operators return [res, val, pos, acc].                       *)
(***************************************************************************)
NoAccess == [live |-> FALSE, via |-> "none", length |-> 0, index |-> 0]

LengthDefined_new(via, length) ==
    [live |-> TRUE, via |-> via, length |-> length, index |-> 0]

RECURSIVE Deserialize(_, _, _)

next_element_seed_Inclusive(inp, p, acc, sh) ==
    IF acc.index <= acc.length
    THEN LET r == Deserialize(sh, inp, p)
         IN  [res |-> r.res, val |-> IF r.res = "Ok" THEN Some(r.val) ELSE None,
              pos |-> r.pos, acc |-> [acc EXCEPT !.index = @ + 1]]
    ELSE [res |-> "Ok", val |-> None, pos |-> p, acc |-> acc]

next_element_seed(inp, p, acc, sh) ==
    IF acc.index < acc.length
    THEN LET r == Deserialize(sh, inp, p)
         IN  [res |-> r.res, val |-> IF r.res = "Ok" THEN Some(r.val) ELSE None,
              pos |-> r.pos, acc |-> [acc EXCEPT !.index = @ + 1]]
    ELSE [res |-> "Ok", val |-> None, pos |-> p, acc |-> acc]

next_key_seed(inp, p, acc, sh) ==
    IF acc.index < acc.length
    THEN LET r == Deserialize(sh, inp, p)
         IN  [res |-> r.res, val |-> IF r.res = "Ok" THEN Some(r.val) ELSE None,
              pos |-> r.pos, acc |-> [acc EXCEPT !.index = @ + 1]]
    ELSE [res |-> "Ok", val |-> None, pos |-> p, acc |-> acc]

next_value_seed(inp, p, acc, sh) ==
    LET r == Deserialize(sh, inp, p)
    IN  [res |-> r.res, val |-> r.val, pos |-> r.pos, acc |-> acc]

(***************************************************************************)
(* The visitors of serde's Deserialize impls: Vec<T> asks for elements     *)
(* until there is none, a tuple (and a derived tuple struct or struct)     *)
(* asks for one element per field and fails when it gets none, a          *)
(* BTreeMap asks for entries (key, then value) until there is no key and   *)
(* inserts each.                                                           *)
(***************************************************************************)
RECURSIVE seq_lt(_, _)
seq_lt(a, b) ==
    IF a = <<>> THEN b # <<>>
    ELSE IF b = <<>> THEN FALSE
    ELSE IF Head(a) = Head(b) THEN seq_lt(Tail(a), Tail(b))
    ELSE Head(a) < Head(b)

key_lt(ksh, a, b) == IF ksh.k = "str" THEN seq_lt(a, b) ELSE a < b

btree_insert(ksh, m, k, v) ==
    SelectSeq(m, LAMBDA e : key_lt(ksh, e[1], k)) \o <<(<<k, v>>)>>
        \o SelectSeq(m, LAMBDA e : key_lt(ksh, k, e[1]))

RECURSIVE vec_visit_seq(_, _, _, _, _)
vec_visit_seq(inp, p, acc, esh, vals) ==
    LET r == next_element_seed(inp, p, acc, esh)
    IN  IF r.res # "Ok" THEN DeErr(r.res, r.pos)
        ELSE IF r.val = None THEN DeOk(vals, r.pos)
        ELSE vec_visit_seq(inp, r.pos, r.acc, esh, Append(vals, r.val[1]))

RECURSIVE tuple_visit_seq(_, _, _, _, _)
tuple_visit_seq(inp, p, acc, shs, vals) ==
    IF Len(vals) = Len(shs) THEN DeOk(vals, p)
    ELSE LET r == next_element_seed(inp, p, acc, shs[Len(vals) + 1])
         IN  IF r.res # "Ok" THEN DeErr(r.res, r.pos)
             ELSE IF r.val = None THEN DeErr("Message", r.pos)
             ELSE tuple_visit_seq(inp, r.pos, r.acc, shs, Append(vals, r.val[1]))

RECURSIVE map_visit_map(_, _, _, _, _, _)
map_visit_map(inp, p, acc, ksh, vsh, m) ==
    LET rk == next_key_seed(inp, p, acc, ksh)
    IN  IF rk.res # "Ok" THEN DeErr(rk.res, rk.pos)
        ELSE IF rk.val = None THEN DeOk(m, rk.pos)
        ELSE LET rv == next_value_seed(inp, rk.pos, rk.acc, vsh)
             IN  IF rv.res # "Ok" THEN DeErr(rv.res, rv.pos)
                 ELSE map_visit_map(inp, rv.pos, rv.acc, ksh, vsh,
                                    btree_insert(ksh, m, rk.val[1], rv.val))

deserialize_option_OnlyOne(inp, p, sh) ==
    LET r == read_u8(inp, p)
    IN  IF r.kind # "Ok" THEN DeErr(map_err(r.kind), r.pos)
        ELSE IF r.val # 1 THEN DeOk(None, r.pos)
        ELSE LET v == Deserialize(sh, inp, r.pos)
             IN  IF v.res # "Ok" THEN v ELSE DeOk(Some(v.val), v.pos)

deserialize_option(inp, p, sh) ==
    LET r == read_u8(inp, p)
    IN  IF r.kind # "Ok" THEN DeErr(map_err(r.kind), r.pos)
        ELSE IF r.val = 0 THEN DeOk(None, r.pos)
        ELSE LET v == Deserialize(sh, inp, r.pos)
             IN  IF v.res # "Ok" THEN v ELSE DeOk(Some(v.val), v.pos)

deserialize_seq(inp, p, esh) ==
    LET l == read_u16(inp, p)
    IN  IF l.kind # "Ok" THEN DeErr(map_err(l.kind), l.pos)
        ELSE vec_visit_seq(inp, l.pos, LengthDefined_new("visit_seq", l.val), esh, <<>>)

deserialize_tuple(inp, p, len, shs) ==
    tuple_visit_seq(inp, p, LengthDefined_new("visit_seq", len % U16Mod), shs, <<>>)

deserialize_tuple_struct(inp, p, name, len, shs) ==
    tuple_visit_seq(inp, p, LengthDefined_new("visit_seq", len % U16Mod), shs, <<>>)

deserialize_map(inp, p, ksh, vsh) ==
    LET l == read_u16(inp, p)
    IN  IF l.kind # "Ok" THEN DeErr(map_err(l.kind), l.pos)
        ELSE map_visit_map(inp, l.pos, LengthDefined_new("visit_map", l.val), ksh, vsh, <<>>)

deserialize_struct_Counted(inp, p, name, fields, shs) ==
    LET l == read_u16(inp, p)
    IN  IF l.kind # "Ok" THEN DeErr(map_err(l.kind), l.pos)
        ELSE deserialize_tuple(inp, l.pos, l.val, shs)

deserialize_struct(inp, p, name, fields, shs) ==
    deserialize_tuple(inp, p, Len(fields), shs)

(***************************************************************************)
(* de.rs: Enum, the EnumAccess / VariantAccess handed to the visitor, and  *)
(* the visitor serde derives for an enum: it asks for the variant, maps    *)
(* the index to one of its variants (an index that is not one fails) and   *)
(* asks for that variant's payload.                                        *)
(***************************************************************************)
variant_seed(inp, p, variants) ==
    LET r == read_u8(inp, p)
    IN  IF r.kind # "Ok" THEN DeErr(map_err(r.kind), r.pos)
        ELSE IF r.val >= Len(variants) THEN DeErr("Message", r.pos)
        ELSE DeOk(r.val, r.pos)

unit_variant(inp, p) == DeOk(<<>>, p)

newtype_variant_seed(inp, p, sh) ==
    LET r == Deserialize(sh, inp, p)
    IN  IF r.res # "Ok" THEN r ELSE DeOk(<<r.val>>, r.pos)

tuple_variant(inp, p, len, shs) == deserialize_tuple(inp, p, len, shs)

struct_variant(inp, p, fields, shs) == deserialize_struct(inp, p, "", fields, shs)

enum_visit_enum(inp, p, variants) ==
    LET t == variant_seed(inp, p, variants)
    IN  IF t.res # "Ok" THEN t
        ELSE LET var == variants[t.val + 1]
                 r == CASE var.kind = "unit" -> unit_variant(inp, t.pos)
                        [] var.kind = "newtype" -> newtype_variant_seed(inp, t.pos, var.es[1])
                        [] var.kind = "tuple" -> tuple_variant(inp, t.pos, Len(var.es), var.es)
                        [] var.kind = "struct" ->
                              struct_variant(inp, t.pos, var.fields, var.es)
             IN  IF r.res # "Ok" THEN r ELSE DeOk(EnumValue(t.val, r.val), r.pos)

deserialize_enum(inp, p, name, variants) == enum_visit_enum(inp, p, variants)

Deserialize(sh, inp, p) ==
    CASE sh.k = "bool" -> deserialize_bool(inp, p)
      [] sh.k = "i8" -> deserialize_i8(inp, p)
      [] sh.k = "i16" -> deserialize_i16(inp, p)
      [] sh.k = "i32" -> deserialize_i32(inp, p)
      [] sh.k = "i64" -> deserialize_i64(inp, p)
      [] sh.k = "u64" -> deserialize_u64(inp, p)
      [] sh.k = "u8" -> deserialize_u8(inp, p)
      [] sh.k = "u16" -> deserialize_u16(inp, p)
      [] sh.k = "u32" -> deserialize_u32(inp, p)
      [] sh.k = "char" -> deserialize_char(inp, p)
      [] sh.k = "str" -> deserialize_string(inp, p)
      [] sh.k = "bytes" -> deserialize_bytes(inp, p)
      [] sh.k = "byte_buf" -> deserialize_byte_buf(inp, p)
      [] sh.k = "unit" -> deserialize_unit(inp, p)
      [] sh.k = "unit_struct" -> deserialize_unit_struct(inp, p, sh.name)
      [] sh.k = "option" -> deserialize_option(inp, p, sh.e)
      [] sh.k = "seq" -> deserialize_seq(inp, p, sh.e)
      [] sh.k = "tuple" -> deserialize_tuple(inp, p, Len(sh.es), sh.es)
      [] sh.k = "tuple_struct" ->
            deserialize_tuple_struct(inp, p, sh.name, Len(sh.es), sh.es)
      [] sh.k = "struct" -> deserialize_struct(inp, p, sh.name, sh.fields, sh.es)
      [] sh.k = "enum" -> deserialize_enum(inp, p, sh.name, sh.variants)
      [] sh.k = "map" -> deserialize_map(inp, p, sh.key, sh.val)

from_reader(inp, sh) == Deserialize(sh, inp, 0)

(***************************************************************************)
(* from_bytes, the buffer entry point lib.rs exports and the tests call:   *)
(* from_reader's decode followed by the check that the buffer is used up.  *)
(***************************************************************************)
from_bytes_NoCheck(inp, sh) == from_reader(inp, sh)

from_bytes(inp, sh) ==
    LET r == from_reader(inp, sh)
    IN  IF r.res = "Ok" /\ r.pos < Len(inp) THEN DeErr("TrailingBytes", r.pos) ELSE r

(***************************************************************************)
(* SpecDe: a caller and its visitors driving one Deserializer over a       *)
(* buffer, one method per step.  While a visitor holds a LengthDefined it  *)
(* is the only one to touch the Deserializer; a failed call ends the run.  *)
(***************************************************************************)
\* struct Test { int: u32, seq: Vec<String> } and a tuple struct
TestShape == TStruct("Test", <<"int", "seq">>, <<T("u32"), TSeq(T("str"))>>)
TupleStructShape == TTupleStruct("Tuple", <<T("u8"), T("bool")>>)
\* a struct of two single-byte fields
PairShape == TStruct("Pair", <<"a", "b">>, <<T("u8"), T("u8")>>)

\* enum E { Unit, Newtype(u32), Tuple(u8, u8), Struct { a: u32 } }
EShape == TEnum("E", <<Variant("Unit", "unit", <<>>, <<>>),
                       Variant("Newtype", "newtype", <<>>, <<T("u32")>>),
                       Variant("Tuple", "tuple", <<>>, <<T("u8"), T("u8")>>),
                       Variant("Struct", "struct", <<"a">>, <<T("u32")>>)>>)

Alphabet == {0, 1, 2, 216}
\* the buffers of tests/test.rs:236, 253, 263, 273, 283, 59 and de.rs:425-437
TestBuffers == {<<0, 2, 97, 98>>, <<0, 2, 72, 101, 108>>, <<0, 2, 72, 101, 108, 77, 67>>,
                <<0, 4, 72, 101, 108>>, <<0, 3, 72, 101, 108, 77, 67>>,
                <<1, 0, 0, 0, 1>>, <<3, 0, 0, 0, 1>>,
                <<255, 255, 255, 255, 255, 254, 142, 187>>}
Inputs == SeqsUpTo(Alphabet, MaxInput) \cup TestBuffers
ElemShapes == {T("u8"), T("u16"), T("str")}
ValueShapes == {TSeq(T("u8")), TSeq(T("str")), TMap(T("u8"), T("u8")),
                TTuple(<<T("u8"), T("u16")>>), PairShape, TupleStructShape, EShape}

InitDe ==
    /\ IdleSer /\ IdleDe /\ input \in Inputs
    /\ job = [mode |-> "none"] /\ phase = "idle"

DeReady == deRes \in {"None", "Ok"} /\ ~access.live

DeStep(op, arg, r) ==
    /\ pos' = r.pos
    /\ deRes' = r.res
    /\ deVal' = r.val
    /\ deCall' = [op |-> op, arg |-> arg, from |-> pos, idx |-> access.index]
    /\ UNCHANGED <<input, access, serVars, topVars>>

AccessStep(op, arg, r) ==
    /\ pos' = r.pos
    /\ deRes' = r.res
    /\ deVal' = r.val
    /\ access' = r.acc
    /\ deCall' = [op |-> op, arg |-> arg, from |-> pos, idx |-> access.index]
    /\ UNCHANGED <<input, serVars, topVars>>

DeserializeBool == DeReady /\ DeStep("deserialize_bool", None, deserialize_bool(input, pos))

DeserializeI8 == DeReady /\ DeStep("deserialize_i8", None, deserialize_i8(input, pos))

DeserializeI16 == DeReady /\ DeStep("deserialize_i16", None, deserialize_i16(input, pos))

DeserializeI32 == DeReady /\ DeStep("deserialize_i32", None, deserialize_i32(input, pos))

DeserializeI64 == DeReady /\ DeStep("deserialize_i64", None, deserialize_i64(input, pos))

DeserializeU64 == DeReady /\ DeStep("deserialize_u64", None, deserialize_u64(input, pos))

DeserializeU8 == DeReady /\ DeStep("deserialize_u8", None, deserialize_u8(input, pos))

DeserializeU16 == DeReady /\ DeStep("deserialize_u16", None, deserialize_u16(input, pos))

DeserializeU32 == DeReady /\ DeStep("deserialize_u32", None, deserialize_u32(input, pos))

DeserializeChar == DeReady /\ DeStep("deserialize_char", None, deserialize_char(input, pos))

DeserializeStr == DeReady /\ DeStep("deserialize_str", None, deserialize_str(input, pos))

DeserializeBytes == DeReady /\ DeStep("deserialize_bytes", None, deserialize_bytes(input, pos))

DeserializeByteBuf ==
    DeReady /\ DeStep("deserialize_byte_buf", None, deserialize_byte_buf(input, pos))

DeserializeUnit == DeReady /\ DeStep("deserialize_unit", None, deserialize_unit(input, pos))

DeserializeUnitStruct ==
    DeReady /\ DeStep("deserialize_unit_struct", "Unit",
                      deserialize_unit_struct(input, pos, "Unit"))

DeserializeOption ==
    /\ DeReady
    /\ \E sh \in ElemShapes :
          DeStep("deserialize_option", sh, deserialize_option(input, pos, sh))

\* deserialize_seq up to the call of visitor.visit_seq
DeserializeSeq ==
    /\ DeReady
    /\ LET l == read_u16(input, pos)
       IN  IF l.kind # "Ok"
           THEN AccessStep("deserialize_seq", None,
                           [res |-> map_err(l.kind), val |-> None, pos |-> l.pos,
                            acc |-> access])
           ELSE AccessStep("deserialize_seq", None,
                           [res |-> "Ok", val |-> None, pos |-> l.pos,
                            acc |-> LengthDefined_new("visit_seq", l.val)])

\* deserialize_tuple up to the call of visitor.visit_seq
DeserializeTuple ==
    /\ DeReady
    /\ \E len \in 0..MaxLen :
          AccessStep("deserialize_tuple", len,
                     [res |-> "Ok", val |-> None, pos |-> pos,
                      acc |-> LengthDefined_new("visit_seq", len % U16Mod)])

\* deserialize_tuple_struct up to the call of visitor.visit_seq
DeserializeTupleStruct ==
    /\ DeReady
    /\ \E len \in 0..MaxLen :
          AccessStep("deserialize_tuple_struct", len,
                     [res |-> "Ok", val |-> None, pos |-> pos,
                      acc |-> LengthDefined_new("visit_seq", len % U16Mod)])

\* deserialize_struct, which is deserialize_tuple with the number of fields
DeserializeStruct ==
    /\ DeReady
    /\ \E fields \in {<<>>, <<"a">>, <<"a", "b">>} :
          AccessStep("deserialize_struct", fields,
                     [res |-> "Ok", val |-> None, pos |-> pos,
                      acc |-> LengthDefined_new("visit_seq", Len(fields) % U16Mod)])

\* deserialize_map up to the call of visitor.visit_map
DeserializeMap ==
    /\ DeReady
    /\ LET l == read_u16(input, pos)
       IN  IF l.kind # "Ok"
           THEN AccessStep("deserialize_map", None,
                           [res |-> map_err(l.kind), val |-> None, pos |-> l.pos,
                            acc |-> access])
           ELSE AccessStep("deserialize_map", None,
                           [res |-> "Ok", val |-> None, pos |-> l.pos,
                            acc |-> LengthDefined_new("visit_map", l.val)])

NextElementSeed ==
    /\ access.live /\ access.via = "visit_seq" /\ deRes = "Ok"
    /\ \E sh \in ElemShapes :
          AccessStep("next_element_seed", sh, next_element_seed(input, pos, access, sh))

NextKeySeed ==
    /\ access.live /\ access.via = "visit_map" /\ deRes = "Ok"
    /\ ~(deCall.op = "next_key_seed" /\ deVal # None)
    /\ \E sh \in ElemShapes :
          AccessStep("next_key_seed", sh, next_key_seed(input, pos, access, sh))

NextValueSeed ==
    /\ access.live /\ access.via = "visit_map" /\ deRes = "Ok"
    /\ deCall.op = "next_key_seed" /\ deVal # None
    /\ \E sh \in ElemShapes :
          AccessStep("next_value_seed", sh, next_value_seed(input, pos, access, sh))

\* the visitor returns its value and gives the LengthDefined up
VisitReturn ==
    /\ access.live /\ deRes = "Ok"
    /\ ~(deCall.op = "next_key_seed" /\ deVal # None)
    /\ access' = NoAccess
    /\ deVal' = None
    /\ deCall' = [op |-> "visit_return", arg |-> None, from |-> pos, idx |-> access.index]
    /\ UNCHANGED <<input, pos, deRes, serVars, topVars>>

\* T::deserialize(&mut deserializer) for a type whose visitor is serde's
DeserializeValue ==
    /\ DeReady
    /\ \E sh \in ValueShapes : DeStep("deserialize", sh, Deserialize(sh, input, pos))

NextDe ==
    \/ DeserializeBool \/ DeserializeU8 \/ DeserializeU16 \/ DeserializeU32
    \/ DeserializeI8 \/ DeserializeI16 \/ DeserializeI32 \/ DeserializeI64 \/ DeserializeU64
    \/ DeserializeChar \/ DeserializeStr \/ DeserializeBytes \/ DeserializeByteBuf
    \/ DeserializeUnit \/ DeserializeUnitStruct \/ DeserializeOption
    \/ DeserializeSeq \/ DeserializeTuple \/ DeserializeMap
    \/ DeserializeTupleStruct \/ DeserializeStruct
    \/ NextElementSeed \/ NextKeySeed \/ NextValueSeed \/ VisitReturn
    \/ DeserializeValue

SpecDe == InitDe /\ [][NextDe]_vars

(***************************************************************************)
(* SpecRT: one call of an entry point.  An "enc" job is a value and its    *)
(* shape: to_bytes encodes it and from_reader / from_bytes decodes the     *)
(* bytes it produced.  A "dec" job is a buffer received from elsewhere and *)
(* the shape asked for.                                                    *)
(***************************************************************************)
SortedMaps(ksh, keys, vals) ==
    {m \in SeqsUpTo(keys \X vals, MaxLen) :
        \A i \in 1..Len(m) : \A j \in 1..Len(m) : i < j => key_lt(ksh, m[i][1], m[j][1])}

ValuesOf(k) ==
    CASE k = "bool" -> BOOLEAN
      [] k = "u8" -> ByteIn
      [] k = "u16" -> U16In
      [] k = "u32" -> U32In
      [] k = "u64" -> U64In
      [] k = "i8" -> I8In
      [] k = "i16" -> I16In
      [] k = "i32" -> I32In
      [] k = "i64" -> I64In
      [] k = "char" -> CharIn
      [] k = "str" -> StrIn
      [] k = "unit" -> {None}

EncJob(sh, v) == [mode |-> "enc", sh |-> sh, v |-> v]

\* job is one of the values the model encodes
IsEncJob ==
    \/ \E k \in {"bool", "u8", "u16", "u32", "char", "str", "unit",
                  "u64", "i8", "i16", "i32", "i64"} :
          \E v \in ValuesOf(k) : job = EncJob(T(k), v)
    \/ job = EncJob(TUnitStruct("Unit"), None)
    \/ \E v \in SeqsUpTo({0, 97}, MaxLen) : job = EncJob(T("bytes"), v)
    \/ \E v \in {None, Some(<<0, 77>>)} : job = EncJob(TOpt(T("u32")), v)
    \/ \E v \in {None, Some(<<>>), Some(<<97>>)} : job = EncJob(TOpt(T("str")), v)
    \/ \E v \in SeqsUpTo({0, 97}, MaxLen) : job = EncJob(TSeq(T("u8")), v)
    \/ \E v \in SeqsUpTo({<<>>, <<97>>, <<233, 98>>}, MaxLen) :
          job = EncJob(TSeq(T("str")), v)
    \/ \E a \in {0, 63} : \E b \in BOOLEAN : \E c \in {0, 5456} :
          job = EncJob(TTuple(<<T("u8"), T("bool"), T("u16")>>), <<a, b, c>>)
    \/ job = EncJob(TTuple(<<T("u8"), T("bool"), T("char")>>), <<63, TRUE, 103>>)
    \/ \E a \in {0, 125} : \E b \in BOOLEAN :
          job = EncJob(TupleStructShape, <<a, b>>)
    \/ \E a \in {<<0, 1>>, <<U16Max, 0>>} : \E b \in SeqsUpTo({<<97>>, <<98>>}, MaxLen) :
          job = EncJob(TestShape, <<a, b>>)
    \/ job = EncJob(EShape, EnumValue(0, <<>>))
    \/ \E i \in {1, 3} : \E a \in {<<0, 1>>, <<U16Max, U16Max>>} :
          job = EncJob(EShape, EnumValue(i, <<a>>))
    \/ \E a \in {1, 255} : \E b \in {0, 2} : job = EncJob(EShape, EnumValue(2, <<a, b>>))
    \/ \E v \in SortedMaps(T("u8"), {1, 2, 97}, {0, 7}) :
          job = EncJob(TMap(T("u8"), T("u8")), v)
    \/ \E v \in SortedMaps(T("str"), {<<>>, <<97>>, <<97, 98>>}, {3, 7}) :
          job = EncJob(TMap(T("str"), T("u8")), v)

DecShapes == {T("u16"), T("char"), T("str"), T("bytes"), T("byte_buf"), TOpt(T("u8")),
              TSeq(T("u8")), TMap(T("u8"), T("u8")), TTuple(<<T("u8"), T("u16")>>),
              PairShape, TupleStructShape, EShape,
              T("u8"), T("u32"), T("u64"), T("i8"), T("i16"), T("i32"), T("i64"),
              T("unit"), TUnitStruct("Unit")}

DecJob(sh, b) == [mode |-> "dec", sh |-> sh, buf |-> b]

\* job is a buffer the model decodes
IsDecJob == \E sh \in DecShapes : \E b \in Inputs : job = DecJob(sh, b)

InitRT ==
    /\ IdleSer /\ IdleDe
    /\ (IsEncJob \/ IsDecJob)
    /\ input = IF job.mode = "dec" THEN job.buf ELSE <<>>
    /\ phase = "start"

ToBytes ==
    /\ phase = "start" /\ job.mode = "enc"
    /\ LET r == to_bytes(job.sh, job.v)
       IN  /\ output' = r.output
           /\ serRes' = r.res
           /\ serCall' = [op |-> "to_bytes", arg |-> None, before |-> <<>>]
    /\ phase' = "encoded"
    /\ UNCHANGED <<deVars, job>>

Received ==
    \/ job.mode = "enc" /\ phase = "encoded" /\ serRes = "Ok"
    \/ job.mode = "dec" /\ phase = "start"

Decoded(op, r) ==
    /\ pos' = r.pos
    /\ deRes' = r.res
    /\ deVal' = r.val
    /\ deCall' = [op |-> op, arg |-> None, from |-> 0, idx |-> 0]
    /\ phase' = "decoded"
    /\ UNCHANGED <<access, serVars, job>>

FromReader ==
    /\ Received
    /\ input' = IF job.mode = "enc" THEN output ELSE input
    /\ Decoded("from_reader", from_reader(input', job.sh))

FromBytes ==
    /\ Received
    /\ input' = IF job.mode = "enc" THEN output ELSE input
    /\ Decoded("from_bytes", from_bytes(input', job.sh))

NextRT == ToBytes \/ FromReader \/ FromBytes

SpecRT == InitRT /\ [][NextRT]_vars

(***************************************************************************)
(* The properties.                                                         *)
(***************************************************************************)
Remaining == Len(input) - deCall.from

\* the 2-byte big-endian prefix at the position the last call started from
Declared == (input[deCall.from + 1] * 256) + input[deCall.from + 2]

\* C1 (SpecRT): for every value of a primitive type, optional, sequence,
\* tuple or map, encoding succeeds and decoding the bytes produced with the
\* same shape succeeds and yields the value.
C1_RoundTrip ==
    (job.mode = "enc" /\ job.sh.k \notin {"unit", "unit_struct", "bytes"}) =>
        /\ phase = "encoded" => serRes = "Ok"
        /\ phase = "decoded" => (deRes = "Ok" /\ deVal = job.v)

\* C2 (SpecRT): from_bytes fails with TrailingBytes exactly when the value
\* was decoded completely and successfully and a byte of the buffer is left
\* (so a String with declared length n from a longer buffer of ASCII bytes
\* gives TrailingBytes); otherwise it gives what the decode gave.
C2_TrailingBytes ==
    deCall.op = "from_bytes" =>
        LET r == from_reader(input, job.sh)
        IN  /\ (r.res = "Ok" /\ r.pos < Len(input)) => deRes = "TrailingBytes"
            /\ (r.res = "Ok" /\ r.pos = Len(input)) => (deRes = "Ok" /\ deVal = r.val)
            /\ r.res # "Ok" => deRes = r.res
            /\ (/\ job.sh = T("str") /\ Len(input) >= 2
                /\ Len(input) > 2 + Declared
                /\ \A i \in 3..(2 + Declared) : input[i] < 128) => deRes = "TrailingBytes"
            /\ (job.sh = T("str") /\ Len(input) >= 2 /\ Len(input) < 2 + Declared)
                  => deRes = "EofWhileDeserializing"

C2_Witness ==
    /\ deCall.op = "from_bytes" /\ job.sh = T("str")
    /\ input = <<0, 2, 72, 101, 108>>
    /\ deRes = "TrailingBytes" /\ pos = 4

\* C3 (SpecDe): a call that needs more bytes than remain for its primitive,
\* its length/count prefix, its string body or its next element fails with
\* EofWhileDeserializing; no call ever fails with Io.
ElemShort(sh, from) ==
    LET rem == Len(input) - from
    IN  CASE sh.k = "u8" -> rem < 1
          [] sh.k = "u16" -> rem < 2
          [] sh.k = "str" -> rem < 2 \/ (input[from + 1] * 256) + input[from + 2] > rem - 2
          [] OTHER -> FALSE

C3_EofNotIo ==
    /\ deRes # "Io"
    /\ (deCall.op \in {"deserialize_bool", "deserialize_u8"} /\ Remaining < 1)
          => deRes = "EofWhileDeserializing"
    /\ (deCall.op = "deserialize_u16" /\ Remaining < 2) => deRes = "EofWhileDeserializing"
    /\ (deCall.op = "deserialize_u32" /\ Remaining < 4) => deRes = "EofWhileDeserializing"
    /\ (/\ deCall.op \in {"deserialize_str", "deserialize_bytes", "deserialize_seq",
                          "deserialize_map"}
        /\ Remaining < 2) => deRes = "EofWhileDeserializing"
    /\ (deCall.op = "deserialize_str" /\ ElemShort(T("str"), deCall.from))
          => deRes = "EofWhileDeserializing"
    /\ (deCall.op = "deserialize_option" /\ Remaining < 1) => deRes = "EofWhileDeserializing"
    /\ (deCall.op = "deserialize_option" /\ Remaining >= 1 /\ input[deCall.from + 1] # 0
        /\ ElemShort(deCall.arg, deCall.from + 1)) => deRes = "EofWhileDeserializing"
    /\ (/\ deCall.op \in {"next_element_seed", "next_key_seed"}
        /\ deCall.idx < access.length
        /\ ElemShort(deCall.arg, deCall.from)) => deRes = "EofWhileDeserializing"
    /\ (deCall.op = "next_value_seed" /\ ElemShort(deCall.arg, deCall.from))
          => deRes = "EofWhileDeserializing"
    /\ (deCall.op = "deserialize" /\ deCall.arg.k \in {"seq", "map"} /\ Remaining < 2)
          => deRes = "EofWhileDeserializing"
    /\ (/\ deCall.op = "deserialize" /\ deCall.arg = TSeq(T("u8"))
        /\ Remaining >= 2 /\ Declared > Remaining - 2) => deRes = "EofWhileDeserializing"
    /\ (/\ deCall.op = "deserialize" /\ deCall.arg = TMap(T("u8"), T("u8"))
        /\ Remaining >= 2 /\ 2 * Declared > Remaining - 2) => deRes = "EofWhileDeserializing"

C3_Witness ==
    /\ deCall.op = "deserialize" /\ deCall.arg = TMap(T("u8"), T("u8"))
    /\ input = <<0, 3, 72, 101, 108, 77, 67>> /\ deCall.from = 0
    /\ deRes = "EofWhileDeserializing"

\* C4 (SpecSer): encoding a byte sequence (and so a string), or beginning a
\* sequence or map, whose length or count exceeds 65535 fails with an error
\* and writes no prefix.
Oversize ==
    \/ serCall.op \in {"serialize_seq", "serialize_map"}
          /\ serCall.arg # None /\ serCall.arg[1] > U16Max
    \/ serCall.op = "serialize_bytes" /\ Len(serCall.arg) > U16Max

C4_OversizeFails ==
    Oversize => (serRes \notin {"Ok", "None"} /\ output = serCall.before)

\* C5 (SpecSer): serialize_seq / serialize_map with len = None fails with
\* LengthNotKnown and writes nothing; with a known len it succeeds.
C5_LengthNotKnown ==
    serCall.op \in {"serialize_seq", "serialize_map"} =>
        IF serCall.arg = None
        THEN serRes = "LengthNotKnown" /\ output = serCall.before
        ELSE serRes = "Ok" /\ Len(output) = Len(serCall.before) + 2

C5_Witness ==
    serCall.op = "serialize_seq" /\ serCall.arg = None /\ serRes = "LengthNotKnown"

\* C6 (SpecSer): serialize_char emits exactly the 4 bytes of the code point
\* as a big-endian unsigned 32-bit integer, with no length prefix.
CodePointBytes(c) == <<0, c \div 65536, (c \div 256) % 256, c % 256>>

C6_CharFourBytes ==
    serCall.op = "serialize_char" =>
        (serRes = "Ok" /\ output = serCall.before \o CodePointBytes(serCall.arg))

\* C7 (SpecDe): deserialize_char with 4 bytes available consumes them as a
\* big-endian code point; a surrogate or a value above 0x10FFFF fails with
\* InvalidChar, any other value is yielded as the character.
ScalarAt(from) ==
    LET b1 == input[from + 1]
        b2 == input[from + 2]
        b3 == input[from + 3]
    IN  b1 = 0 /\ b2 <= 16 /\ ~(b2 = 0 /\ b3 >= 216 /\ b3 <= 223)

C7_CharDecode ==
    (deCall.op = "deserialize_char" /\ Remaining >= 4) =>
        IF ScalarAt(deCall.from)
        THEN /\ deRes = "Ok"
             /\ deVal = (input[deCall.from + 2] * 65536) + (input[deCall.from + 3] * 256)
                            + input[deCall.from + 4]
             /\ pos = deCall.from + 4
        ELSE deRes = "InvalidChar"

\* C8 (SpecDe): decoding a byte sequence whose declared length n is
\* available consumes the prefix and exactly the next n bytes and yields
\* those n bytes.
C8_BytesDecode ==
    (/\ deCall.op \in {"deserialize_bytes", "deserialize_byte_buf"}
     /\ Remaining >= 2 /\ Declared <= Remaining - 2) =>
        /\ deRes = "Ok"
        /\ deVal = SubSeq(input, deCall.from + 3, deCall.from + 2 + Declared)
        /\ pos = deCall.from + 2 + Declared

\* C9 (SpecDe): deserialize_seq reads the 2-byte count n into a cursor that
\* starts at 0; the cursor never exceeds n; a request below n advances it by
\* one and yields an element; a request at n yields none, consumes nothing
\* and leaves the cursor; so a Vec<u8> gets exactly the next n bytes.
C9_SeqCursor ==
    /\ access.index <= access.length
    /\ (deCall.op = "deserialize_seq" /\ deRes = "Ok") =>
          (access.length = Declared /\ access.index = 0 /\ pos = deCall.from + 2)
    /\ deCall.op = "next_element_seed" =>
          IF deCall.idx < access.length
          THEN access.index = deCall.idx + 1 /\ (deRes = "Ok" => deVal # None)
          ELSE /\ deRes = "Ok" /\ deVal = None
               /\ pos = deCall.from /\ access.index = deCall.idx
    /\ (/\ deCall.op = "deserialize" /\ deCall.arg = TSeq(T("u8"))
        /\ Remaining >= 2 /\ Declared <= Remaining - 2) =>
          /\ deRes = "Ok"
          /\ deVal = SubSeq(input, deCall.from + 3, deCall.from + 2 + Declared)
          /\ pos = deCall.from + 2 + Declared

C9_Witness ==
    /\ deCall.op = "next_element_seed" /\ access.via = "visit_seq"
    /\ access.length = 2 /\ deCall.idx = 2 /\ access.index = 2
    /\ deRes = "Ok" /\ deVal = None
    /\ pos < Len(input)

\* C10 (SpecRT): a map is encoded as the 2-byte big-endian entry count, then
\* each entry's key immediately followed by its value, in iteration order;
\* decoding a map whose declared count n of entries is present consumes the
\* prefix and exactly n keys and n values, alternating, and stops there,
\* whatever follows.
CountPrefix(n) == <<n \div 256, n % 256>>

PairBytes(m) == [i \in 1..(2 * Len(m)) |-> m[(i + 1) \div 2][IF i % 2 = 1 THEN 1 ELSE 2]]

RECURSIVE AsciiEntryBytes(_)
AsciiEntryBytes(m) ==
    IF m = <<>> THEN <<>>
    ELSE <<0, Len(m[1][1])>> \o m[1][1] \o <<m[1][2]>> \o AsciiEntryBytes(Tail(m))

C10_MapLayout ==
    /\ (job.mode = "enc" /\ job.sh = TMap(T("u8"), T("u8")) /\ phase # "start") =>
          (serRes = "Ok" /\ output = CountPrefix(Len(job.v)) \o PairBytes(job.v))
    /\ (job.mode = "enc" /\ job.sh = TMap(T("str"), T("u8")) /\ phase # "start") =>
          (serRes = "Ok" /\ output = CountPrefix(Len(job.v)) \o AsciiEntryBytes(job.v))
    /\ (/\ job.mode # "none" /\ job.sh = TMap(T("u8"), T("u8"))
        /\ deCall.op = "from_reader"
        /\ Len(input) >= 2 /\ Len(input) >= 2 + (2 * Declared)) =>
          /\ deRes = "Ok"
          /\ pos = 2 + (2 * Declared)
          /\ {deVal[i][1] : i \in 1..Len(deVal)} = {input[2 * i + 1] : i \in 1..Declared}
          /\ \A i \in 1..Len(deVal) : \A j \in 1..Len(deVal) :
                i < j => deVal[i][1] < deVal[j][1]
          /\ \A i \in 1..Len(deVal) : \E e \in 1..Declared :
                /\ input[2 * e + 1] = deVal[i][1]
                /\ input[2 * e + 2] = deVal[i][2]
                /\ \A l \in (e + 1)..Declared : input[2 * l + 1] # deVal[i][1]

C10_Witness ==
    /\ job.mode = "enc" /\ job.sh = TMap(T("u8"), T("u8")) /\ Len(job.v) = 2
    /\ phase = "decoded" /\ deCall.op = "from_reader"
    /\ output = <<0, 2, job.v[1][1], job.v[1][2], job.v[2][1], job.v[2][2]>>
    /\ deRes = "Ok" /\ deVal = job.v /\ pos = 6

\* C11 (SpecRT): a tuple, tuple struct or struct is encoded as its elements
\* or fields one after the other in declared order, with no count and no
\* field names, so a struct's bytes are those of the tuple of its fields;
\* decoding one decodes exactly as many elements as the shape has, whatever
\* the bytes say.
TupleLike(sh) == sh.k \in {"tuple", "tuple_struct", "struct"}

RECURSIVE ConcatFields(_, _, _)
ConcatFields(shs, vs, i) ==
    IF i > Len(shs) THEN <<>>
    ELSE to_bytes(shs[i], vs[i]).output \o ConcatFields(shs, vs, i + 1)

RECURSIVE FieldsFrom(_, _, _, _)
FieldsFrom(shs, inp, p, vals) ==
    IF Len(vals) = Len(shs) THEN DeOk(vals, p)
    ELSE LET r == Deserialize(shs[Len(vals) + 1], inp, p)
         IN  IF r.res # "Ok" THEN DeErr(r.res, r.pos)
             ELSE FieldsFrom(shs, inp, r.pos, Append(vals, r.val))

C11_TupleLayout ==
    /\ (job.mode = "enc" /\ TupleLike(job.sh) /\ phase # "start") =>
          /\ serRes = "Ok"
          /\ output = ConcatFields(job.sh.es, job.v, 1)
          /\ output = to_bytes(TTuple(job.sh.es), job.v).output
    /\ (TupleLike(job.sh) /\ deCall.op = "from_reader") =>
          LET r == FieldsFrom(job.sh.es, input, 0, <<>>)
          IN  /\ deRes = r.res /\ pos = r.pos
              /\ deRes = "Ok" => (deVal = r.val /\ Len(deVal) = Len(job.sh.es))
    /\ (job.sh = PairShape /\ deCall.op = "from_reader" /\ Len(input) >= 2) =>
          (deRes = "Ok" /\ deVal = <<input[1], input[2]>> /\ pos = 2)

C11_Witness ==
    /\ job.mode = "enc" /\ job.sh = TestShape
    /\ phase = "decoded" /\ deCall.op = "from_reader"
    /\ output = <<0, 0, 0, 1, 0, 2, 0, 1, 97, 0, 1, 98>>
    /\ deRes = "Ok" /\ deVal = job.v /\ pos = 12

\* C12 (SpecRT): a value of an enum is encoded as one byte, the 0-based index
\* of its variant, followed by the variant's payload: nothing for a unit
\* variant, the inner value for a newtype variant, the fields in order and
\* without a count for a tuple or struct variant; decoding reads the one tag
\* byte, takes the variant with that index and decodes the same payload.
C12_EnumLayout ==
    /\ (job.mode = "enc" /\ job.sh.k = "enum" /\ phase # "start") =>
          LET var == job.sh.variants[job.v.variant_index + 1]
          IN  /\ serRes = "Ok"
              /\ output = <<job.v.variant_index>> \o ConcatFields(var.es, job.v.vals, 1)
              /\ var.kind = "unit" => output = <<job.v.variant_index>>
              /\ var.kind = "newtype" =>
                    output = <<job.v.variant_index>> \o to_bytes(var.es[1], job.v.vals[1]).output
    /\ (job.sh.k = "enum" /\ deCall.op = "from_reader") =>
          IF Len(input) = 0 THEN deRes = "EofWhileDeserializing"
          ELSE IF input[1] >= Len(job.sh.variants) THEN deRes # "Ok" /\ pos = 1
          ELSE LET var == job.sh.variants[input[1] + 1]
                   r == FieldsFrom(var.es, input, 1, <<>>)
               IN  /\ deRes = r.res /\ pos = r.pos
                   /\ deRes = "Ok" => deVal = EnumValue(input[1], r.val)
                   /\ var.kind = "unit" => (deRes = "Ok" /\ pos = 1)
    /\ (job.mode = "enc" /\ job.sh = EShape /\ phase # "start") =>
          /\ job.v = EnumValue(1, <<(<<0, 1>>)>>) => output = <<1, 0, 0, 0, 1>>
          /\ job.v = EnumValue(2, <<1, 2>>) => output = <<2, 1, 2>>
          /\ job.v = EnumValue(3, <<(<<0, 1>>)>>) => output = <<3, 0, 0, 0, 1>>
    /\ (job.mode = "enc" /\ job.sh.k = "enum" /\ phase = "decoded") =>
          (deRes = "Ok" /\ deVal = job.v)

C12_Witness ==
    /\ job.mode = "enc" /\ job.sh = EShape /\ job.v.variant_index = 2
    /\ phase = "decoded" /\ deCall.op = "from_reader"
    /\ output = <<2, 1, 2>>
    /\ deRes = "Ok" /\ deVal = EnumValue(2, <<1, 2>>) /\ pos = 3

\* C13 (SpecRT): an integer of 8, 16, 32 or 64 bits, signed or unsigned, is
\* encoded as exactly 1, 2, 4 or 8 bytes, most significant first, a signed
\* one in two's complement; decoding consumes exactly that many bytes and
\* yields the integer (-3i8 gives [253], 7359u32 gives [0,0,28,191]).
IntKinds == {"i8", "i16", "i32", "i64", "u8", "u16", "u32", "u64"}

Width(k) == CASE k \in {"i8", "u8"} -> 1
              [] k \in {"i16", "u16"} -> 2
              [] k \in {"i32", "u32"} -> 4
              [] k \in {"i64", "u64"} -> 8

\* the two bytes of a 16-bit limb, a negative one taken modulo 2^16
LimbBytes(l) == LET u == IF l < 0 THEN l + 65536 ELSE l IN <<u \div 256, u % 256>>

ExpectedIntBytes(k, v) ==
    CASE k \in {"i8", "u8"} -> <<IF v < 0 THEN v + 256 ELSE v>>
      [] k \in {"i16", "u16"} -> LimbBytes(v)
      [] k = "i32" -> LET low == v % 16777216
                      IN  <<(v \div 16777216) % 256, low \div 65536,
                            (low \div 256) % 256, low % 256>>
      [] k = "u32" -> LimbBytes(v[1]) \o LimbBytes(v[2])
      [] k \in {"i64", "u64"} ->
            LimbBytes(v[1]) \o LimbBytes(v[2]) \o LimbBytes(v[3]) \o LimbBytes(v[4])

EncodesTo(k, v, bs) == (job.sh = T(k) /\ job.v = v) => output = bs

C13_IntegerLayout ==
    /\ (job.mode = "enc" /\ job.sh.k \in IntKinds /\ phase # "start") =>
          /\ serRes = "Ok"
          /\ Len(output) = Width(job.sh.k)
          /\ output = ExpectedIntBytes(job.sh.k, job.v)
          /\ (job.sh.k \in {"i8", "i16", "i32"}) => (output[1] >= 128 <=> job.v < 0)
          /\ job.sh.k = "i64" => (output[1] >= 128 <=> job.v[1] < 0)
          /\ EncodesTo("i8", -3, <<253>>)
          /\ EncodesTo("i8", -128, <<128>>)
          /\ EncodesTo("i16", -3456, <<242, 128>>)
          /\ EncodesTo("i16", 32767, <<127, 255>>)
          /\ EncodesTo("i32", -7359, <<255, 255, 227, 65>>)
          /\ EncodesTo("i32", I32Min, <<128, 0, 0, 0>>)
          /\ EncodesTo("i32", I32Max, <<127, 255, 255, 255>>)
          /\ EncodesTo("i64", <<-1, 65535, 65534, 36539>>,
                       <<255, 255, 255, 255, 255, 254, 142, 187>>)
          /\ EncodesTo("i64", <<-32768, 0, 0, 0>>, <<128, 0, 0, 0, 0, 0, 0, 0>>)
          /\ EncodesTo("u16", 5456, <<21, 80>>)
          /\ EncodesTo("u32", <<0, 7359>>, <<0, 0, 28, 191>>)
          /\ EncodesTo("u64", <<0, 0, 148, 65205>>, <<0, 0, 0, 0, 0, 148, 254, 181>>)
    /\ (job.mode = "enc" /\ job.sh.k \in IntKinds /\ phase = "decoded") =>
          (deRes = "Ok" /\ deVal = job.v /\ pos = Width(job.sh.k))
    /\ (job.mode = "dec" /\ job.sh.k \in IntKinds /\ deCall.op = "from_reader") =>
          IF Len(input) >= Width(job.sh.k)
          THEN /\ deRes = "Ok" /\ pos = Width(job.sh.k)
               /\ ExpectedIntBytes(job.sh.k, deVal) = SubSeq(input, 1, Width(job.sh.k))
          ELSE deRes = "EofWhileDeserializing"

C13_Witness ==
    /\ job.mode = "enc" /\ job.sh = T("i32") /\ job.v = -7359
    /\ phase = "decoded" /\ deCall.op = "from_reader"
    /\ output = <<255, 255, 227, 65>>
    /\ deRes = "Ok" /\ deVal = -7359 /\ pos = 4

\* C14 (SpecRT): an Option is encoded as one presence byte, exactly 0 for
\* None and exactly 1 for Some, followed by the encoded inner value only for
\* Some; on decode a presence byte of 0 yields None and consumes nothing
\* more, and any nonzero presence byte yields Some of the inner value decoded
\* from the bytes that follow.
C14_OptionLayout ==
    /\ (job.mode = "enc" /\ job.sh.k = "option" /\ phase # "start") =>
          /\ serRes = "Ok"
          /\ IF job.v = None THEN output = <<0>>
             ELSE /\ output = <<1>> \o to_bytes(job.sh.e, job.v[1]).output
                  /\ Len(output) > 1
          /\ (job.sh = TOpt(T("u32")) /\ job.v # None /\ job.v[1] = <<0, 77>>)
                => output = <<1, 0, 0, 0, 77>>
    /\ (job.mode = "enc" /\ job.sh.k = "option" /\ phase = "decoded") =>
          (deRes = "Ok" /\ deVal = job.v)
    /\ (job.sh.k = "option" /\ deCall.op = "from_reader" /\ Len(input) >= 1) =>
          IF input[1] = 0 THEN deRes = "Ok" /\ deVal = None /\ pos = 1
          ELSE LET r == Deserialize(job.sh.e, input, 1)
               IN  /\ deRes = r.res /\ pos = r.pos
                   /\ deRes = "Ok" => deVal = Some(r.val)
    /\ (/\ job.sh = TOpt(T("u8")) /\ deCall.op = "from_reader"
        /\ Len(input) >= 2 /\ input[1] # 0) =>
          (deRes = "Ok" /\ deVal = Some(input[2]) /\ pos = 2)

C14_Witness ==
    /\ job.mode = "dec" /\ job.sh = TOpt(T("u8")) /\ deCall.op = "from_reader"
    /\ Len(input) >= 2 /\ input[1] = 216
    /\ deRes = "Ok" /\ deVal = Some(input[2]) /\ pos = 2

\* C15 (SpecRT): encoding the unit value or a unit struct succeeds and emits
\* no byte, and decoding one succeeds and consumes no byte (so it decodes
\* from an empty buffer).
C15_UnitZeroBytes ==
    /\ (job.mode = "enc" /\ job.sh.k \in {"unit", "unit_struct"} /\ phase # "start") =>
          (serRes = "Ok" /\ output = <<>>)
    /\ (job.sh.k \in {"unit", "unit_struct"} /\ deCall.op = "from_reader") =>
          (deRes = "Ok" /\ pos = 0)

\* C16 (SpecDe): decoding a string whose 2-byte length n is available along
\* with its n body bytes, the body not being valid UTF-8, fails with
\* InvalidString, and the cursor is then past the prefix and all n body
\* bytes (it moved by exactly 2 + n).
Body == SubSeq(input, deCall.from + 3, deCall.from + 2 + Declared)

\* a byte that never occurs in UTF-8, or a lead byte that no continuation
\* byte follows
IllFormed(bs) ==
    \E i \in 1..Len(bs) :
        \/ (bs[i] >= 128 /\ bs[i] < 194 /\ (i = 1 \/ bs[i - 1] < 128))
        \/ bs[i] > 244
        \/ (bs[i] >= 194 /\ (i = Len(bs) \/ bs[i + 1] < 128 \/ bs[i + 1] > 191))

C16_InvalidString ==
    (deCall.op = "deserialize_str" /\ Remaining >= 2 /\ Declared <= Remaining - 2) =>
        /\ ~from_utf8(Body).ok => (deRes = "InvalidString" /\ pos = deCall.from + 2 + Declared)
        /\ IllFormed(Body) => (deRes = "InvalidString" /\ pos = deCall.from + 2 + Declared)
        /\ (\A i \in 1..Len(Body) : Body[i] < 128) =>
              (deRes = "Ok" /\ deVal = Body /\ pos = deCall.from + 2 + Declared)

C16_Witness ==
    /\ deCall.op = "deserialize_str" /\ deCall.from = 0
    /\ input = <<0, 2, 216, 0>>
    /\ deRes = "InvalidString" /\ pos = 4

====
